---- MODULE Spec2Model ----
(***************************************************************************)
(* maggma: the asyncio pipeline driver (maggma/cli/multiprocessing.py) and *)
(* the Projection_Builder (maggma/builders/projection_builder.py).         *)
(*                                                                         *)
(* Spec        multi(builder, num_workers) run with a builder whose        *)
(*             process_item / update_targets are supplied by the caller.   *)
(* SpecLive    Spec with the event loop and the pool making progress.      *)
(* SpecGrouper grouper(iterable, n) over an iterator of arbitrary values.  *)
(* SpecPB      a caller of Projection_Builder's methods.                   *)
(* SpecPipe    multi run with a Projection_Builder.                        *)
(***************************************************************************)
EXTENDS Integers, Sequences, FiniteSets, TLC

----------------------------------------------------------------------------
(* Bounds of the model *)

MaxLen == 4
MaxChunk == 2
MaxWorkers == 2

MaxDocs == 2
MaxItems == 2

\* the first value the clock shows
FirstTime == 10

----------------------------------------------------------------------------
(* State *)

VARIABLES
    builder,        \* the builder handed to multi: kind, chunk_size
    num_workers,    \* multi's second argument
    source,         \* what builder.get_items() (or grouper's iterable) yields
    pc,             \* where multi is: init, zip, gather, done, raised
    error,          \* the exception that left multi ("none" while there is none)
    executor,       \* the ProcessPoolExecutor multi creates
    pos,            \* how many times next(self.iterator) returned an item
    value,          \* BoundedSemaphore._value of back_pressure
    its,            \* zip_longest's iterator list: mapper or repeat(fillvalue)
    finished,       \* zip_longest's count of exhausted iterators
    slot,           \* the next __anext__ call of the current zip_longest round
    values,         \* the results of the current round's __anext__ calls
    chunk,          \* the group multi is gathering: source positions
    task,           \* per source item: the state of its process_and_release()
    update_calls,   \* the argument of every builder.update_targets call, in order
    finish_order,   \* the source positions in the order their transforms finished
    groups,         \* the groups grouper has yielded, in order
    source_end,     \* how the source iterator ends: "stop" or the exception raised
    args,           \* the arguments Projection_Builder(...) is called with
    pb_pc,          \* where the caller of a Projection_Builder is
    pb_error,       \* the exception a Projection_Builder method raised
    gen,            \* the get_items generator: started, keys, next chunk, item bound
    yielded,        \* the list get_items yielded last (process_item's argument)
    processed,      \* what process_item returned last (update_targets' argument)
    target_docs,    \* the documents of the target store
    io,             \* the calls made on the stores, in order
    now             \* datetime.utcnow()

multi_vars == <<num_workers, source, pc, error, executor, pos, value, its,
                finished, slot, values, chunk, task, update_calls, finish_order,
                groups, source_end>>

pb_vars == <<args, pb_pc, pb_error, gen, yielded, processed>>

vars == <<builder, multi_vars, pb_vars, target_docs, io, now>>

----------------------------------------------------------------------------
(* Helpers over sequences *)

Range(s) == {s[i] : i \in DOMAIN s}

RECURSIVE SelectIdx(_, _)
\* the positions of s, in order, that hold a coroutine (not the fill value)
SelectIdx(s, i) ==
    IF i > Len(s) THEN <<>>
    ELSE IF s[i].t = "coro" THEN <<s[i].i>> \o SelectIdx(s, i + 1)
    ELSE SelectIdx(s, i + 1)

RECURSIVE Flatten(_)
Flatten(ss) == IF ss = <<>> THEN <<>> ELSE Head(ss) \o Flatten(Tail(ss))

\* ceil(a / b) for b >= 1
CeilDiv(a, b) == (a + b - 1) \div b

----------------------------------------------------------------------------
(* Documents, stores and the Projection_Builder *)

\* None as a field value or key value of a document
Null == 0

\* a document is a function from the field names it has to values
Fields(d) == DOMAIN d

\* an update that keeps the fields a already has
UpdateKeepsFirst(a, b) ==
    [f \in DOMAIN a \cup DOMAIN b |-> IF f \in DOMAIN a THEN a[f] ELSE b[f]]

\* dict.update: the fields of b written over those of a
Update(a, b) ==
    [f \in Fields(a) \cup Fields(b) |-> IF f \in Fields(b) THEN b[f] ELSE a[f]]

\* d[f] = v
SetField(d, f, v) == [g \in Fields(d) \cup {f} |-> IF g = f THEN v ELSE d[g]]

\* del d[f] for every f of fs that d has
DelFields(d, fs) == [g \in Fields(d) \ fs |-> d[g]]

\* pydash.get(d, path) for a path that names a top-level field
Get(d, path) == IF path \in Fields(d) THEN d[path] ELSE Null

EmptyDoc == [f \in {} |-> Null]

RECURSIVE SelectSeq2(_, _, _)
\* the elements of s whose field f has a value in ks, in order
SelectSeq2(s, f, ks) ==
    IF s = <<>> THEN <<>>
    ELSE IF f \in Fields(Head(s)) /\ Head(s)[f] \in ks
         THEN <<Head(s)>> \o SelectSeq2(Tail(s), f, ks)
         ELSE SelectSeq2(Tail(s), f, ks)

----------------------------------------------------------------------------
(* Projection_Builder.process_item, lines 200-233 *)

\* the key of every item, a key once per item that has it
KeyPerItem(items, key) == [j \in DOMAIN items |-> items[j][key]]

RECURSIVE KeyOrder(_, _)
\* the keys of items_sorted_by_key in insertion order: first occurrence
KeyOrder(items, key) ==
    IF items = <<>> THEN <<>>
    ELSE LET rest == KeyOrder(Tail(items), key)
             k == Head(items)[key]
         IN <<k>> \o SelectSeq(rest, LAMBDA x : x # k)

RECURSIVE ItemsWithKey(_, _, _)
\* items_sorted_by_key[k]: the items with key value k, in arrival order
ItemsWithKey(items, key, k) ==
    IF items = <<>> THEN <<>>
    ELSE IF Head(items)[key] = k
         THEN <<Head(items)>> \o ItemsWithKey(Tail(items), key, k)
         ELSE ItemsWithKey(Tail(items), key, k)

RECURSIVE MergeAll(_, _)
\* lines 225-227: target_doc.update(i) for i in i_sorted
MergeAll(target_doc, i_sorted) ==
    IF i_sorted = <<>> THEN target_doc
    ELSE MergeAll(Update(target_doc, Head(i_sorted)), Tail(i_sorted))

\* lines 225-229: the document built for key value k
TargetDoc(i_sorted, key, k) == SetField(MergeAll(EmptyDoc, i_sorted), key, k)

process_item(items, key) ==
    LET ks == KeyOrder(items, key)
    IN [j \in DOMAIN ks |-> TargetDoc(ItemsWithKey(items, key, ks[j]), key, ks[j])]

----------------------------------------------------------------------------
(* Projection_Builder.__init__, lines 63-100, and ensure_indexes *)

NoProjection == [t |-> "none"]
Dict(m) == [t |-> "dict", map |-> m]

\* line 83: {i: i for i in f}
ListToDict(f) == Dict([i \in Range(f) |-> i])

\* lines 81-89 for one element of fields_to_project
ElemMapping(e) ==
    CASE e.t = "list" -> ListToDict(e.fields)
      [] e.t = "dict" -> Dict(e.map)
      [] OTHER        -> [t |-> "TypeError"]

\* lines 91-93: the key is added to every mapping that is not {}
WithKey(p, store, target_store) ==
    IF p.t = "dict" /\ DOMAIN p.map # {}
    THEN Dict(SetField(p.map, target_store.key, store.key))
    ELSE p

\* lines 102-109: one ensure_index call per source, in order
ensure_indexes(sources) ==
    [s \in DOMAIN sources |-> [op |-> "ensure_index", store |-> s, keys |-> <<>>]]

\* the indexes ensured before the arguments are checked
IndexesFirst(stores) ==
    [s \in DOMAIN stores |-> [op |-> "ensure_index", store |-> s, keys |-> <<>>]]

\* lines 63-74 come first: no store call is made before the arguments are
\* checked
CallsBeforeChecks(stores) == <<>>

\* The constructor: what it raises, the projection_mapping it builds and the
\* store calls it has made when it returns or raises.
Projection_Builder(source_stores, target_store, fields_to_project, query_by_key, chunk_size) ==
    LET stores == source_stores.stores
        early == CallsBeforeChecks(stores)
        fail(e) == [raised |-> e, io |-> early, self |-> NoProjection]
    IN  IF ~source_stores.islist THEN fail("TypeError")
        ELSE IF fields_to_project.t = "list"
                /\ Len(stores) # Len(fields_to_project.elems)
        THEN fail("ValueError")
        ELSE IF fields_to_project.t \notin {"list", "none"} THEN fail("TypeError")
        ELSE LET pm0 == IF fields_to_project.t = "none"
                        THEN [s \in DOMAIN stores |-> NoProjection]
                        ELSE [s \in DOMAIN stores |->
                                 ElemMapping(fields_to_project.elems[s])]
             IN  IF \E s \in DOMAIN pm0 : pm0[s].t = "TypeError"
                 THEN fail("TypeError")
                 ELSE [raised |-> "none",
                       io |-> early \o ensure_indexes(stores),
                       self |-> [kind |-> "projection",
                                 chunk_size |-> chunk_size,
                                 sources |-> stores,
                                 target |-> target_store,
                                 query_by_key |-> query_by_key,
                                 projection_mapping |->
                                     IF fields_to_project.t = "none" THEN pm0
                                     ELSE [s \in DOMAIN stores |->
                                              WithKey(pm0[s], stores[s],
                                                      target_store)]]]

----------------------------------------------------------------------------
(* Projection_Builder.get_items, lines 111-198 *)

\* store.distinct(field): the values the field takes in the store
Distinct(store) ==
    {d[store.key] : d \in {x \in Range(store.docs) : store.key \in Fields(x)}}

\* lines 126-129: the union of every source's distinct key values
DistinctKeys(sources) == UNION {Distinct(sources[s]) : s \in DOMAIN sources}

\* all orders a set can be listed in
Perms(S) ==
    {f \in [1 .. Cardinality(S) -> S] : \A x \in S : \E i \in DOMAIN f : f[i] = x}

\* lines 122-138: the lists `keys` can be (list(set) has no fixed order)
KeyLists(b) ==
    IF Len(b.query_by_key) > 0 THEN {b.query_by_key}
    ELSE Perms(DistinctKeys(b.sources))

\* maggma.utils.grouper(keys, n): chunks of n, the last padded with None
utils_grouper(keys, n) ==
    [c \in 1 .. CeilDiv(Len(keys), n) |->
        [j \in 1 .. n |->
            IF (c - 1) * n + j <= Len(keys) THEN keys[(c - 1) * n + j] ELSE Null]]

\* a chunk that keeps its None keys
KeepNone(chunked_keys) == chunked_keys

\* line 143: [k for k in chunked_keys if k is not None]
NotNone(chunked_keys) == SelectSeq(chunked_keys, LAMBDA k : k # Null)

\* lines 153-166: properties is None (all fields) or the mapped source fields;
\* projection.values() of a projection that is None raises AttributeError
Properties(projection) ==
    IF projection.t = "dict" /\ DOMAIN projection.map = {} THEN [t |-> "all"]
    ELSE IF projection.t = "dict"
         THEN [t |-> "fields",
               fields |-> {projection.map[k] : k \in DOMAIN projection.map}]
         ELSE [t |-> "AttributeError"]

\* store.query(criteria={store.key: {"$in": keys}}, properties): the matching
\* documents in store order, cut down to _id and the properties asked for
Query(store, keys, properties) ==
    LET hit == SelectSeq2(store.docs, store.key, Range(keys))
    IN  IF properties.t = "all" THEN hit
        ELSE [j \in DOMAIN hit |->
                 [f \in Fields(hit[j]) \cap (properties.fields \cup {"_id"})
                     |-> hit[j][f]]]

\* the fields lines 185-187 remove
Removed(store) == {"_id", store.last_updated_field}

\* lines 175-188: the item made of one document d of a store
Item(d, store, projection, properties, target) ==
    LET item == IF properties.t = "all" THEN d
                ELSE [k \in DOMAIN projection.map |-> Get(d, projection.map[k])]
    IN  SetField(DelFields(item, Removed(store)), target.key, d[store.key])

\* lines 148-196 for the stores from s on. acc: the items so far, whether the
\* local `item` is bound, the queries sent, what was raised.
RECURSIVE StoreLoop(_, _, _, _)
StoreLoop(b, chunked_keys, s, acc) ==
    IF s > Len(b.sources) \/ acc.raised # "none" THEN acc
    ELSE LET store == b.sources[s]
             projection == b.projection_mapping[s]
             properties == Properties(projection)
         IN  IF properties.t = "AttributeError"
             THEN [acc EXCEPT !.raised = "AttributeError"]
             ELSE
             LET docs == Query(store, chunked_keys, properties)
                 q == [op |-> "query", store |-> s, keys |-> chunked_keys]
                 items == [j \in DOMAIN docs |->
                              Item(docs[j], store, projection, properties, b.target)]
                 bound == acc.bound \/ Len(docs) > 0
             IN  StoreLoop(b, chunked_keys, s + 1,
                     [items |-> acc.items \o items,
                      bound |-> bound,
                      io |-> Append(acc.io, q),
                      \* lines 192-196 read item.keys()
                      raised |-> IF bound THEN "none" ELSE "UnboundLocalError"])

\* one pass of the loop of line 142: the list that is yielded, or the error
Chunk(b, padded_keys, bound) ==
    StoreLoop(b, NotNone(padded_keys), 1,
              [items |-> <<>>, bound |-> bound, io |-> <<>>, raised |-> "none"])

\* the whole generator run over `keys`: the lists it yields, how it ends
\* ("stop" or the exception), and the queries it sent
RECURSIVE GenLoop(_, _, _, _)
GenLoop(b, chunks, c, acc) ==
    IF c > Len(chunks) THEN acc
    ELSE LET r == Chunk(b, chunks[c], acc.bound)
         IN  IF r.raised # "none"
             THEN [acc EXCEPT !.end = r.raised, !.io = acc.io \o r.io]
             ELSE GenLoop(b, chunks, c + 1,
                          [yields |-> Append(acc.yields, r.items),
                           bound |-> r.bound,
                           io |-> acc.io \o r.io,
                           end |-> "stop"])

get_items(b, keys) ==
    GenLoop(b, utils_grouper(keys, b.chunk_size), 1,
            [yields |-> <<>>, bound |-> FALSE, io |-> <<>>, end |-> "stop"])

----------------------------------------------------------------------------
(* Projection_Builder.update_targets, lines 235-254 *)

\* a result of process_item is a list, not a document
IsList(v) == "list" \in DOMAIN v

\* a stamp that keeps the value a record already has
StampIfAbsent(items, target, t) ==
    [j \in DOMAIN items |->
        IF target.last_updated_field \in Fields(items[j]) THEN items[j]
        ELSE SetField(items[j], target.last_updated_field, t)]

\* lines 250-251: item[target.last_updated_field] = target_insertion_time
Stamp(items, target, t) ==
    [j \in DOMAIN items |-> SetField(items[j], target.last_updated_field, t)]

\* target.update(docs): upsert by the target's key
RECURSIVE Upsert(_, _, _)
Upsert(stored, docs, key) ==
    IF docs = <<>> THEN stored
    ELSE LET d == Head(docs)
             same == {j \in DOMAIN stored : stored[j][key] = d[key]}
         IN  Upsert(IF same = {} THEN Append(stored, d)
                    ELSE [j \in DOMAIN stored |-> IF j \in same THEN d ELSE stored[j]],
                    Tail(docs), key)

\* line 254 as it is recorded among the store calls: target.update(items)
TargetUpdate(docs) == [op |-> "update", store |-> 0, keys |-> <<>>, docs |-> docs]

\* an update_targets without the test of line 253
UpdateAlways(items, target, t) ==
    [raised |-> "none", update |-> TRUE, docs |-> Stamp(items, target, t)]

\* what one call does: what it raises, whether target.update is called and
\* with which documents
update_targets(items, target, t) ==
    IF \E j \in DOMAIN items : IsList(items[j])
    THEN [raised |-> "TypeError", update |-> FALSE, docs |-> <<>>]
    ELSE [raised |-> "none", update |-> Len(items) > 0,
          docs |-> Stamp(items, target, t)]

----------------------------------------------------------------------------
(* The builder's transform, as multi sees it *)

None == [null |-> TRUE]

\* self.process(item) run in the executor: a result or an exception. A
\* Projection_Builder's item is one list that get_items yielded.
process(item) ==
    CASE item.kind = "ok"    -> [ok |-> TRUE,  val |-> [result_of |-> item.id]]
      [] item.kind = "none"  -> [ok |-> TRUE,  val |-> None]
      [] item.kind = "raise" -> [ok |-> FALSE, val |-> None]
      [] item.kind = "docs"  ->
            [ok |-> TRUE, val |-> [list |-> process_item(item.docs, item.key)]]

----------------------------------------------------------------------------
(* asyncio.BoundedSemaphore *)

\* BoundedSemaphore(builder.chunk_size)
BoundedSemaphore(n) == n

\* acquire() returns at once while _value > 0, else it suspends the caller
CanAcquire(v) == v > 0

Acquire(v) == v - 1

\* a release that takes a permit instead of giving one back
ReleaseTakes(v) == v - 1

\* a release that gives nothing back
ReleaseNothing(v) == v

Release(v) == v + 1

\* the permits that are held
Acquired == BoundedSemaphore(builder.chunk_size) - value

----------------------------------------------------------------------------
(* grouper / zip_longest *)

\* args = [iterable] * n
GrouperArgs(n) == n

Slots == 1 .. GrouperArgs(builder.chunk_size)

\* what one __anext__ call of a round gave: nothing yet, StopAsyncIteration,
\* the fill value, the coroutine for source position i, another exception
Pending == [t |-> "pending", i |-> 0]
Stop == [t |-> "stop", i |-> 0]
Fill == [t |-> "fill", i |-> 0]
Coro(i) == [t |-> "coro", i |-> i]
Exc == [t |-> "exc", i |-> 0]

----------------------------------------------------------------------------
(* Initial states: multi is about to be called *)

Kinds == {"ok", "none", "raise"}

Sources ==
    UNION {[1 .. l -> Kinds] : l \in 0 .. MaxLen}

MkSource(ks) == [i \in DOMAIN ks |-> [id |-> i, kind |-> ks[i]]]

NoArgs == [t |-> "none"]

NoGen == [started |-> FALSE, keys |-> <<>>, c |-> 1, bound |-> FALSE]

\* multi has not run a step
MultiInit ==
    /\ pc = "init"
    /\ error = "none"
    /\ executor = [created |-> 0, max_workers |-> 0, shutdown |-> FALSE]
    /\ pos = 0
    /\ value = 0
    /\ its = <<>>
    /\ finished = 0
    /\ slot = 1
    /\ values = <<>>
    /\ chunk = <<>>
    /\ task = [i \in DOMAIN source |-> "none"]
    /\ update_calls = <<>>
    /\ finish_order = <<>>
    /\ groups = <<>>

\* no Projection_Builder call is under way
PBIdle ==
    /\ args = NoArgs
    /\ pb_pc = "idle"
    /\ pb_error = "none"
    /\ gen = NoGen
    /\ yielded = <<>>
    /\ processed = <<>>

Init ==
    /\ \E n \in 1 .. MaxChunk : builder = [kind |-> "generic", chunk_size |-> n]
    /\ num_workers \in 1 .. MaxWorkers
    /\ \E ks \in Sources : source = MkSource(ks)
    /\ source_end = "stop"
    /\ MultiInit
    /\ PBIdle
    /\ target_docs = <<>>
    /\ io = <<>>
    /\ now = FirstTime

----------------------------------------------------------------------------
(* multi: lines 58-63, up to the first suspension inside zip_longest *)

MultiStart ==
    /\ pc = "init"
    /\ executor' = [created |-> executor.created + 1,
                    max_workers |-> num_workers, shutdown |-> FALSE]
    /\ value' = BoundedSemaphore(builder.chunk_size)
    /\ its' = [s \in Slots |-> "mapper"]
    /\ finished' = 0
    /\ values' = [s \in Slots |-> Pending]
    /\ slot' = 1
    /\ pc' = "zip"
    /\ UNCHANGED <<builder, num_workers, source, source_end, error, pos, chunk,
                   task, update_calls, finish_order, groups, pb_vars,
                   target_docs, io, now>>

\* next(self.iterator): an item, StopIteration, or the exception the source
\* raises (once: a generator that raised is finished)
NextItem ==
    IF pos < Len(source) THEN Coro(pos + 1)
    ELSE IF source_end = "stop" \/ \E s \in DOMAIN values : values[s].t = "exc"
         THEN Stop
         ELSE Exc

(* AsyncBackPressuredMap.__anext__: acquire, then next(self.iterator) *)
Anext ==
    /\ pc = "zip"
    /\ slot \in Slots
    /\ its[slot] = "mapper"
    /\ CanAcquire(value)
    /\ value' = Acquire(value)
    /\ values' = [values EXCEPT ![slot] = NextItem]
    /\ IF NextItem.t = "coro"
       THEN /\ pos' = pos + 1
            /\ task' = [task EXCEPT ![pos + 1] = "new"]
       ELSE UNCHANGED <<pos, task>>
    /\ slot' = slot + 1
    /\ UNCHANGED <<builder, num_workers, source, source_end, pc, error, executor,
                   its, finished, chunk, update_calls, finish_order, groups,
                   pb_vars, target_docs, io, now>>

(* repeat(fillvalue).__anext__ of a slot whose iterator was exhausted *)
RepeatNext ==
    /\ pc = "zip"
    /\ slot \in Slots
    /\ its[slot] = "repeat"
    /\ values' = [values EXCEPT ![slot] = Fill]
    /\ slot' = slot + 1
    /\ UNCHANGED <<builder, num_workers, source, source_end, pc, error, executor,
                   pos, value, its, finished, chunk, task, update_calls,
                   finish_order, groups, pb_vars, target_docs, io, now>>

\* zip_longest after its gather: how many iterators stopped in this round
Stopped(vs) == Cardinality({s \in DOMAIN vs : vs[s].t = "stop"})

\* grouper line 53: the group without the fill values
Group(vs) == SelectIdx(vs, 1)

(* zip_longest's loop body after the gather, grouper's filter, and multi's
   gather call on the chunk or the end of multi's async for *)
ZipLongestStep ==
    /\ pc = "zip"
    /\ slot = GrouperArgs(builder.chunk_size) + 1
    /\ finished' = finished + Stopped(values)
    /\ its' = [s \in Slots |-> IF values[s].t = "stop" THEN "repeat" ELSE its[s]]
    /\ IF \E s \in Slots : values[s].t = "exc"
       THEN /\ pc' = "raised"
            /\ error' = source_end
            /\ chunk' = <<>>
            /\ UNCHANGED groups
       ELSE IF finished' >= GrouperArgs(builder.chunk_size)
       THEN /\ pc' = "done"
            /\ chunk' = <<>>
            /\ UNCHANGED <<error, groups>>
       ELSE /\ pc' = "gather"
            /\ chunk' = Group(values)
            /\ groups' = Append(groups, Group(values))
            /\ UNCHANGED error
    /\ values' = [s \in Slots |-> Pending]
    /\ slot' = 1
    /\ UNCHANGED <<builder, num_workers, source, source_end, executor, pos, value,
                   task, update_calls, finish_order, pb_vars, target_docs, io,
                   now>>

----------------------------------------------------------------------------
(* process_and_release(), one task per item of the chunk *)

InChunk(i) == \E j \in DOMAIN chunk : chunk[j] = i

\* tasks created by one gather call take their first step in argument order
EarlierStarted(i) ==
    \A j \in DOMAIN chunk : chunk[j] < i => task[chunk[j]] # "new"

\* what a step of a task leaves alone
TaskFrame ==
    UNCHANGED <<builder, num_workers, source, source_end, pc, error, executor,
                pos, its, finished, slot, values, chunk, update_calls, groups,
                pb_vars, target_docs, io, now>>

(* line 36: loop.run_in_executor(self.executor, self.process, item) *)
Submit(i) ==
    /\ pc \in {"gather", "raised"}
    /\ InChunk(i)
    /\ task[i] = "new"
    /\ EarlierStarted(i)
    /\ task' = [task EXCEPT ![i] = "submitted"]
    /\ UNCHANGED <<value, finish_order>>
    /\ TaskFrame

Running == {i \in DOMAIN task : task[i] = "running"}

\* the pool hands out its queued calls first in, first out
HeadOfQueue(i) == \A j \in DOMAIN task : task[j] = "submitted" => i <= j

(* a free worker of the pool takes the call *)
WorkerStart(i) ==
    /\ task[i] = "submitted"
    /\ HeadOfQueue(i)
    /\ Cardinality(Running) < executor.max_workers
    /\ task' = [task EXCEPT ![i] = "running"]
    /\ UNCHANGED <<value, finish_order>>
    /\ TaskFrame

(* the worker returns from process_item: the future gets a result or an
   exception *)
WorkerFinish(i) ==
    /\ task[i] = "running"
    /\ task' = [task EXCEPT ![i] =
                   IF process(source[i]).ok THEN "resolved" ELSE "rejected"]
    /\ finish_order' = Append(finish_order, i)
    /\ UNCHANGED value
    /\ TaskFrame

(* lines 37-39 after a result: release the permit, return the future *)
ReleaseAndReturn(i) ==
    /\ task[i] = "resolved"
    /\ value' = Release(value)
    /\ task' = [task EXCEPT ![i] = "done"]
    /\ UNCHANGED finish_order
    /\ TaskFrame

(* line 37 after an exception: await future raises, line 38 is not reached *)
AwaitRaises(i) ==
    /\ task[i] = "rejected"
    /\ task' = [task EXCEPT ![i] = "failed"]
    /\ UNCHANGED <<value, finish_order>>
    /\ TaskFrame

----------------------------------------------------------------------------
(* multi: lines 64-66 *)

\* the results taken in the order the transforms finished
ProcessedAsCompleted(ch) ==
    LET order == SelectSeq(finish_order, LAMBDA i : \E j \in DOMAIN ch : ch[j] = i)
    IN  [j \in DOMAIN order |-> process(source[order[j]]).val]

\* line 65: [c.result() for c in chunk if chunk is not None]
ProcessedItems(ch) == [j \in DOMAIN ch |-> process(source[ch[j]]).val]

\* a fan-in that is over with the first task that returns
GatheredFirst(ch) == \E j \in DOMAIN ch : task[ch[j]] = "done"

\* a fan-in that takes a task that raised for one that returned
GatheredOrFailed(ch) == \A j \in DOMAIN ch : task[ch[j]] \in {"done", "failed"}

\* a fan-in that waits for nothing
NoFanIn(ch) == TRUE

\* the fan-in of line 64 is over: every task of the chunk returned
Gathered(ch) == \A j \in DOMAIN ch : task[ch[j]] = "done"

(* gather returned: collect the results, call update_targets, ask the grouper
   for the next group *)
UpdateTargets ==
    /\ pc = "gather"
    /\ Gathered(chunk)
    /\ update_calls' = Append(update_calls, ProcessedItems(chunk))
    /\ IF builder.kind = "projection"
       THEN LET r == update_targets(ProcessedItems(chunk), builder.target, now)
            IN  /\ now' = now + 1
                /\ IF r.raised # "none"
                   THEN /\ pc' = "raised"
                        /\ error' = r.raised
                        /\ UNCHANGED <<target_docs, io>>
                   ELSE /\ pc' = "zip"
                        /\ target_docs' =
                              IF r.update
                              THEN Upsert(target_docs, r.docs, builder.target.key)
                              ELSE target_docs
                        /\ io' = IF r.update
                                 THEN Append(io, TargetUpdate(r.docs))
                                 ELSE io
                        /\ UNCHANGED error
       ELSE /\ pc' = "zip"
            /\ UNCHANGED <<error, target_docs, io, now>>
    /\ UNCHANGED <<builder, num_workers, source, source_end, executor, pos, value,
                   its, finished, slot, values, chunk, task, finish_order, groups,
                   pb_vars>>

(* gather raised the first exception of its tasks: it leaves multi *)
GatherRaises ==
    /\ pc = "gather"
    /\ \E j \in DOMAIN chunk : task[chunk[j]] = "failed"
    /\ pc' = "raised"
    /\ error' = "TransformError"
    /\ UNCHANGED <<builder, num_workers, source, source_end, executor, pos, value,
                   its, finished, slot, values, chunk, task, update_calls,
                   finish_order, groups, pb_vars, target_docs, io, now>>

----------------------------------------------------------------------------

Next ==
    \/ MultiStart
    \/ Anext
    \/ RepeatNext
    \/ ZipLongestStep
    \/ \E i \in DOMAIN source : Submit(i)
    \/ \E i \in DOMAIN source : WorkerStart(i)
    \/ \E i \in DOMAIN source : WorkerFinish(i)
    \/ \E i \in DOMAIN source : ReleaseAndReturn(i)
    \/ \E i \in DOMAIN source : AwaitRaises(i)
    \/ UpdateTargets
    \/ GatherRaises

Spec == Init /\ [][Next]_vars

\* The event loop runs every task that is ready and the pool's workers take
\* and finish the calls they are given: a step that stays possible is taken.
SpecLive == Init /\ [][Next]_vars /\ WF_vars(Next)

----------------------------------------------------------------------------
(* A caller of Projection_Builder: construct it, pull get_items, hand each
   yielded list to process_item and its result to update_targets *)

\* the source stores and the documents they may hold
StoreA(docs) ==
    [name |-> "A", key |-> "k", last_updated_field |-> "lu", docs |-> docs]
StoreB(docs) ==
    [name |-> "B", key |-> "kb", last_updated_field |-> "lub", docs |-> docs]
TargetStore == [name |-> "T", key |-> "k", last_updated_field |-> "last_updated"]

PoolA ==
    { [_id |-> 1, k |-> 1, lu |-> 5, a |-> 1],
      [_id |-> 2, k |-> 2, lu |-> 5, a |-> 2, b |-> 1],
      [_id |-> 3, k |-> Null, lu |-> 5, a |-> 1] }
PoolB ==
    { [_id |-> 4, kb |-> 1, lub |-> 5, b |-> 2],
      [_id |-> 5, kb |-> 2, lub |-> 5, a |-> 1, k |-> 9] }

SeqsUpTo(S, n) == UNION {[1 .. l -> S] : l \in 0 .. n}

StoreLists ==
    {<<StoreA(da)>> : da \in SeqsUpTo(PoolA, MaxDocs)}
    \cup {<<StoreA(da), StoreB(db)>> :
             da \in SeqsUpTo(PoolA, MaxDocs), db \in SeqsUpTo(PoolB, MaxDocs)}

\* source_stores: a list of stores, or the stores given some other way
SourceStoresArgs ==
    {[islist |-> TRUE, stores |-> ss] : ss \in StoreLists}
    \cup {[islist |-> FALSE, stores |-> <<StoreA(<<>>)>>]}

\* the elements fields_to_project may hold
ElemPool ==
    { [t |-> "list", fields |-> <<>>],
      [t |-> "list", fields |-> <<"b">>],
      [t |-> "dict", map |-> [x |-> "a"]],
      [t |-> "dict", map |-> [lu |-> "a"]],
      [t |-> "other"] }

FieldsToProjectArgs ==
    {[t |-> "none"], [t |-> "other"]}
    \cup {[t |-> "list", elems |-> es] : es \in SeqsUpTo(ElemPool, 2)}

QueryByKeyArgs == {<<>>, <<2, Null, 1>>}

ArgsSet ==
    [source_stores : SourceStoresArgs,
     target_store : {TargetStore},
     fields_to_project : FieldsToProjectArgs,
     query_by_key : QueryByKeyArgs,
     chunk_size : 1 .. MaxChunk]

\* the items a caller may hand to process_item: each carries the key field
ItemPool ==
    {SetField(d, "k", k) : k \in {1, 2},
        d \in {[f \in fs |-> v[f]] :
                 fs \in SUBSET {"a", "b", "last_updated"},
                 v \in [{"a", "b", "last_updated"} -> {1, 2}]}}

\* a builder over one empty store, projecting all fields
PlainBuilder ==
    Projection_Builder([islist |-> TRUE, stores |-> <<StoreA(<<>>)>>], TargetStore,
                       [t |-> "list", elems |-> <<[t |-> "list", fields |-> <<>>]>>],
                       <<>>, 1).self

\* multi is not running
MultiIdle ==
    /\ num_workers = 1
    /\ source = <<>>
    /\ source_end = "stop"
    /\ MultiInit

\* the constructor is about to be called
InitNew ==
    /\ args \in ArgsSet
    /\ builder = [kind |-> "none"]
    /\ pb_pc = "new"
    /\ yielded = <<>>

\* a built builder's process_item is about to be called with a caller's list
InitCall ==
    /\ args = NoArgs
    /\ builder = PlainBuilder
    /\ pb_pc = "yielded"
    /\ yielded \in SeqsUpTo(ItemPool, MaxItems)

InitPB ==
    /\ InitNew \/ InitCall
    /\ pb_error = "none"
    /\ gen = NoGen
    /\ processed = <<>>
    /\ MultiIdle
    /\ target_docs = <<>>
    /\ io = <<>>
    /\ now = FirstTime

(* Projection_Builder(source_stores, target_store, fields_to_project, ...) *)
Construct ==
    /\ pb_pc = "new"
    /\ LET r == Projection_Builder(args.source_stores, args.target_store,
                                   args.fields_to_project, args.query_by_key,
                                   args.chunk_size)
       IN  /\ io' = io \o r.io
           /\ pb_error' = r.raised
           /\ IF r.raised = "none"
              THEN builder' = r.self /\ pb_pc' = "built"
              ELSE pb_pc' = "failed" /\ UNCHANGED builder
    /\ UNCHANGED <<multi_vars, args, gen, yielded, processed, target_docs, now>>

\* lines 127-129: one distinct call per source when query_by_key is empty
DistinctCalls(b) ==
    IF Len(b.query_by_key) > 0 THEN <<>>
    ELSE [s \in DOMAIN b.sources |-> [op |-> "distinct", store |-> s, keys |-> <<>>]]

(* next() on the generator get_items returned: run it to its next yield, to
   its end or to the exception it raises *)
GetItemsNext ==
    /\ pb_pc = "built"
    /\ \E keys \in (IF gen.started THEN {gen.keys} ELSE KeyLists(builder)) :
         LET chunks == utils_grouper(keys, builder.chunk_size)
             first == IF gen.started THEN <<>> ELSE DistinctCalls(builder)
         IN  IF gen.c > Len(chunks)
             THEN /\ pb_pc' = "ended"
                  /\ gen' = [gen EXCEPT !.started = TRUE, !.keys = keys]
                  /\ io' = io \o first
                  /\ UNCHANGED <<yielded, pb_error>>
             ELSE LET r == Chunk(builder, chunks[gen.c], gen.bound)
                  IN  /\ io' = io \o first \o r.io
                      /\ gen' = [started |-> TRUE, keys |-> keys,
                                 c |-> gen.c + 1, bound |-> r.bound]
                      /\ pb_error' = r.raised
                      /\ IF r.raised = "none"
                         THEN pb_pc' = "yielded" /\ yielded' = r.items
                         ELSE pb_pc' = "failed" /\ UNCHANGED yielded
    /\ UNCHANGED <<builder, multi_vars, args, processed, target_docs, now>>

(* builder.process_item(items) *)
ProcessItem ==
    /\ pb_pc = "yielded"
    /\ processed' = process_item(yielded, builder.target.key)
    /\ pb_pc' = "processed"
    /\ UNCHANGED <<builder, multi_vars, args, pb_error, gen, yielded, target_docs,
                   io, now>>

(* builder.update_targets(items) with the list process_item returned *)
CallUpdateTargets ==
    /\ pb_pc = "processed"
    /\ LET r == update_targets(processed, builder.target, now)
       IN  /\ pb_error' = r.raised
           /\ pb_pc' = IF r.raised = "none" THEN "built" ELSE "failed"
           /\ target_docs' = IF r.update
                             THEN Upsert(target_docs, r.docs, builder.target.key)
                             ELSE target_docs
           /\ io' = IF r.update THEN Append(io, TargetUpdate(r.docs)) ELSE io
           \* line 251 writes into the caller's records
           /\ processed' = IF r.raised = "none" THEN r.docs ELSE processed
    /\ now' = now + 1
    /\ UNCHANGED <<builder, multi_vars, args, gen, yielded>>

NextPB ==
    \/ Construct
    \/ GetItemsNext
    \/ ProcessItem
    \/ CallUpdateTargets

SpecPB == InitPB /\ [][NextPB]_vars

----------------------------------------------------------------------------
(* multi run on a Projection_Builder *)

\* the items get_items hands to multi: each is one yielded list
DocItems(yields, key) ==
    [i \in DOMAIN yields |-> [kind |-> "docs", docs |-> yields[i], key |-> key]]

InitPipe ==
    /\ args \in ArgsSet
    /\ LET r == Projection_Builder(args.source_stores, args.target_store,
                                   args.fields_to_project, args.query_by_key,
                                   args.chunk_size)
       IN  /\ r.raised = "none"
           /\ builder = r.self
           /\ io = r.io
           /\ \E keys \in KeyLists(r.self) :
                 /\ gen = [started |-> FALSE, keys |-> keys, c |-> 1,
                           bound |-> FALSE]
                 /\ source = DocItems(get_items(r.self, keys).yields,
                                      r.self.target.key)
                 /\ source_end = get_items(r.self, keys).end
    /\ num_workers \in 1 .. MaxWorkers
    /\ MultiInit
    /\ pb_pc = "built"
    /\ pb_error = "none"
    /\ yielded = <<>>
    /\ processed = <<>>
    /\ target_docs = <<>>
    /\ now = FirstTime

NextPipe ==
    \/ MultiStart
    \/ Anext
    \/ ZipLongestStep
    \/ \E i \in DOMAIN source : Submit(i)
    \/ \E i \in DOMAIN source : WorkerStart(i)
    \/ \E i \in DOMAIN source : WorkerFinish(i)
    \/ \E i \in DOMAIN source : ReleaseAndReturn(i)
    \/ UpdateTargets

SpecPipe == InitPipe /\ [][NextPipe]_vars

----------------------------------------------------------------------------
(* grouper(iterable, n) called on its own, with an async iterator whose
   elements may be any value, None among them *)

\* the values an element of the iterable may be
GrouperElems == {None, [v |-> 1], [v |-> 2]}

\* the element at input position i, as one __anext__ call gave it
Elem(i) == [t |-> "elem", i |-> i]

\* line 53: g is not None
IsNotNone(g) ==
    \/ g.t = "coro"
    \/ g.t = "elem" /\ source[g.i] # None

RECURSIVE NotNoneIdx(_, _)
\* line 53: the input positions of the elements of the tuple that are kept
NotNoneIdx(vs, s) ==
    IF s > Len(vs) THEN <<>>
    ELSE IF IsNotNone(vs[s]) THEN <<vs[s].i>> \o NotNoneIdx(vs, s + 1)
    ELSE NotNoneIdx(vs, s + 1)

InitGrouper ==
    /\ \E n \in 1 .. MaxChunk : builder = [kind |-> "generic", chunk_size |-> n]
    /\ num_workers = 1
    /\ source \in SeqsUpTo(GrouperElems, MaxLen)
    /\ source_end = "stop"
    /\ MultiInit
    /\ PBIdle
    /\ target_docs = <<>>
    /\ io = <<>>
    /\ now = FirstTime

\* what the steps of grouper leave alone
GrouperFrame ==
    UNCHANGED <<builder, num_workers, source, source_end, error, executor, value,
                chunk, task, update_calls, finish_order, pb_vars, target_docs, io,
                now>>

(* lines 49-52: args, zip_longest and its first round *)
GrouperStart ==
    /\ pc = "init"
    /\ its' = [s \in Slots |-> "iter"]
    /\ finished' = 0
    /\ values' = [s \in Slots |-> Pending]
    /\ slot' = 1
    /\ pc' = "zip"
    /\ UNCHANGED <<pos, groups>>
    /\ GrouperFrame

(* one __anext__ call of zip_longest's round on the shared iterator *)
IterNext ==
    /\ pc = "zip"
    /\ slot \in Slots
    /\ its[slot] = "iter"
    /\ values' = [values EXCEPT ![slot] =
                     IF pos < Len(source) THEN Elem(pos + 1) ELSE Stop]
    /\ pos' = IF pos < Len(source) THEN pos + 1 ELSE pos
    /\ slot' = slot + 1
    /\ UNCHANGED <<pc, its, finished, groups>>
    /\ GrouperFrame

(* zip_longest's loop body after its gather, then lines 53-54: filter and
   yield; the consumer asks for the next group at once *)
GrouperYield ==
    /\ pc = "zip"
    /\ slot = GrouperArgs(builder.chunk_size) + 1
    /\ finished' = finished + Stopped(values)
    /\ its' = [s \in Slots |-> IF values[s].t = "stop" THEN "repeat" ELSE its[s]]
    /\ IF finished' >= GrouperArgs(builder.chunk_size)
       THEN pc' = "done" /\ UNCHANGED groups
       ELSE pc' = "zip" /\ groups' = Append(groups, NotNoneIdx(values, 1))
    /\ values' = [s \in Slots |-> Pending]
    /\ slot' = 1
    /\ UNCHANGED pos
    /\ GrouperFrame

NextGrouper ==
    \/ GrouperStart
    \/ IterNext
    \/ RepeatNext
    \/ GrouperYield

SpecGrouper == InitGrouper /\ [][NextGrouper]_vars

----------------------------------------------------------------------------
(* Properties of multi *)

\* the transforms handed to the worker pool that have not completed
Outstanding == {i \in DOMAIN task : task[i] \in {"submitted", "running"}}

\* the source positions of the c-th group of n
ChunkItems(c, n) ==
    {i \in DOMAIN source : (c - 1) * n < i /\ i <= c * n}

\* the results of the c-th group of n, in source order
ChunkResults(c, n) ==
    [j \in 1 .. Cardinality(ChunkItems(c, n)) |->
        process(source[(c - 1) * n + j]).val]

\* the source positions whose transform raises
Raising == {i \in DOMAIN source : ~process(source[i]).ok}

\* C1: at most chunk_size transforms are submitted and not completed, and at
\* most chunk_size permits of back_pressure are held
C1_BackPressure ==
    /\ Cardinality(Outstanding) <= builder.chunk_size
    /\ Acquired <= builder.chunk_size

\* a full chunk of at least two transforms is in the pool at once
C1_Witness ==
    /\ builder.chunk_size >= 2
    /\ Cardinality(Outstanding) = builder.chunk_size
    /\ Acquired = builder.chunk_size

\* C2: the c-th update_targets call is made with the results of the c-th chunk
\* of the source, and every transform of that chunk has completed by then
C2_CommitAfterChunk ==
    \A c \in DOMAIN update_calls :
        /\ update_calls[c] = ChunkResults(c, builder.chunk_size)
        /\ \A i \in ChunkItems(c, builder.chunk_size) : task[i] = "done"

\* two chunks are committed and a transform finished before an earlier one of
\* its chunk
C2_Witness ==
    /\ Len(update_calls) >= 2
    /\ \E a, b \in DOMAIN finish_order :
          /\ a < b
          /\ finish_order[a] > finish_order[b]
          /\ finish_order[b] \in ChunkItems(1, builder.chunk_size)
          /\ finish_order[a] \in ChunkItems(1, builder.chunk_size)

\* the chunk that holds source position i
ChunkOf(i, n) == CeilDiv(i, n)

\* C3: no update_targets call is made for a chunk that holds a raising
\* transform nor for a later one; once a transform's failure reached its task,
\* multi can only raise, and when it has raised the calls made are exactly
\* those of the chunks before the failing one
C3_TransformFailure ==
    LET n == builder.chunk_size
        failed == {i \in DOMAIN task : task[i] = "failed"}
    IN  /\ \A c \in DOMAIN update_calls : \A i \in Raising : ChunkOf(i, n) > c
        /\ pc = "done" => Raising = {}
        /\ failed # {} => pc \in {"gather", "raised"}
        /\ pc = "raised" =>
              /\ error = "TransformError"
              /\ \E i \in failed :
                    /\ \A j \in Raising : ChunkOf(i, n) <= ChunkOf(j, n)
                    /\ update_calls =
                          [c \in 1 .. ChunkOf(i, n) - 1 |-> ChunkResults(c, n)]

\* multi raised because of a transform of a later chunk, after a commit
C3_Witness ==
    /\ pc = "raised"
    /\ error = "TransformError"
    /\ Len(update_calls) >= 1

\* the permits held for good reason: one per transform that has not finished
\* and one per __anext__ call that found the source exhausted
PermitsInUse ==
    Cardinality({i \in DOMAIN task :
                    task[i] \in {"new", "submitted", "running", "resolved",
                                 "rejected"}})
    + finished + Stopped(values)

\* C4: a transform that finished, by returning or by raising, has given its
\* permit back: no permit is held beyond those in use
C4_PermitReleased ==
    pc # "init" => Acquired = PermitsInUse

\* C10: without a failing transform, the c-th call gets the c-th chunk of
\* results -- n of them, the last chunk the 1..n that remain -- and when multi
\* returns there have been ceil(L/n) calls whose batches, concatenated, are the
\* results of the source items in source order
C10_Batches ==
    LET n == builder.chunk_size
        L == Len(source)
    IN  Raising = {} =>
          /\ Len(update_calls) <= CeilDiv(L, n)
          /\ \A c \in DOMAIN update_calls :
                /\ Len(update_calls[c]) = IF c * n <= L THEN n ELSE L - (c - 1) * n
                /\ Len(update_calls[c]) \in 1 .. n
                /\ \A j \in DOMAIN update_calls[c] : update_calls[c][j] # Fill
          /\ Flatten(update_calls)
                = [i \in 1 .. Len(Flatten(update_calls)) |-> process(source[i]).val]
          /\ pc = "done" =>
                /\ Len(update_calls) = CeilDiv(L, n)
                /\ Len(Flatten(update_calls)) = L

\* multi returned after a last chunk that is shorter than the others
C10_Witness ==
    /\ pc = "done"
    /\ Raising = {}
    /\ Len(update_calls) >= 2
    /\ Len(source) % builder.chunk_size # 0

\* C13: when multi has returned or raised, it has created its worker pool
\* exactly once and the pool has been shut down
C13_PoolShutDown ==
    pc \in {"done", "raised"} => (executor.created = 1 /\ executor.shutdown)

\* C14: once a completed transform has given its permit back while another
\* transform is still outstanding and the source has items left, the producer
\* can pull the next source item: __anext__ can run at that moment
C14_FetchOverlaps ==
    (Outstanding # {} /\ CanAcquire(value) /\ pos < Len(source)) => ENABLED Anext

\* what the code does instead: the source iterator is only ever advanced while
\* no transform is outstanding
FetchedOnlyWhenIdle == [][pos' # pos => Outstanding = {}]_vars

\* the source positions whose coroutine exists and whose group has not been
\* handed to update_targets
InFlight ==
    {i \in DOMAIN task :
        task[i] # "none" /\ ChunkOf(i, builder.chunk_size) > Len(update_calls)}

\* C15: every group before the current one has been gathered and handed to
\* update_targets, every transform that has started belongs to the group
\* being gathered, and what is in flight is at most one chunk
C15_OneGroupAtATime ==
    LET n == builder.chunk_size
        c == Len(update_calls)
    IN  /\ \A i \in DOMAIN task :
              /\ ChunkOf(i, n) <= c => task[i] = "done"
              /\ task[i] # "none" => ChunkOf(i, n) <= c + 1
              /\ (task[i] \notin {"none", "new"} /\ ChunkOf(i, n) = c + 1)
                    => (pc \in {"gather", "raised"} /\ InChunk(i))
        /\ Cardinality(InFlight) <= n
        /\ \A i, j \in InFlight : ChunkOf(i, n) = ChunkOf(j, n)

\* a full second group is in the pool after the first was committed
C15_Witness ==
    /\ builder.chunk_size >= 2
    /\ Len(update_calls) = 1
    /\ Cardinality(InFlight) = builder.chunk_size
    /\ \A i \in InFlight : task[i] \in {"submitted", "running"}

\* C20: a run of multi over a source whose transforms all return reaches the
\* end of multi
C20_Terminates == (Raising = {}) => <>(pc = "done")

\* multi returned over a source that is no multiple of chunk_size, with every
\* permit held by a call that found the source exhausted
C20_Witness ==
    /\ pc = "done"
    /\ Raising = {}
    /\ Len(source) % builder.chunk_size # 0
    /\ Len(source) > builder.chunk_size
    /\ Acquired = builder.chunk_size
    /\ finished = builder.chunk_size

----------------------------------------------------------------------------
(* Properties of Projection_Builder *)

\* the key values of a list of items
KeysOf(items, key) == {items[j][key] : j \in DOMAIN items}

\* C5: process_item returns one record per distinct key value of its input:
\* the same key values, none of them twice
C5_OnePerKey ==
    pb_pc = "processed" =>
        LET key == builder.target.key
        IN  /\ KeysOf(processed, key) = KeysOf(yielded, key)
            /\ Len(processed) = Cardinality(KeysOf(yielded, key))
            /\ \A i, j \in DOMAIN processed :
                  processed[i][key] = processed[j][key] => i = j

\* several keys went in, two items shared one
C5_Witness ==
    /\ pb_pc = "processed"
    /\ Len(processed) >= 2
    /\ Len(yielded) > Len(processed)

\* the last position of items that has key value k and field f
LastWith(items, key, k, f) ==
    CHOOSE i \in DOMAIN items :
        /\ items[i][key] = k /\ f \in Fields(items[i])
        /\ \A j \in DOMAIN items :
              items[j][key] = k /\ f \in Fields(items[j]) => j <= i

\* the documents of store s with key value k that have field f after the
\* fields get_items removes are gone
Contributing(b, s, k, f) ==
    LET st == b.sources[s]
    IN  {i \in DOMAIN st.docs :
            /\ st.key \in Fields(st.docs[i]) /\ st.docs[i][st.key] = k
            /\ f \in Fields(st.docs[i]) \ Removed(st)}

Max(S) == CHOOSE x \in S : \A y \in S : y <= x

\* every mapping of the builder is {}: all fields are projected
ProjectsAll(b) ==
    \A s \in DOMAIN b.projection_mapping :
        b.projection_mapping[s].t = "dict" /\ DOMAIN b.projection_mapping[s].map = {}

\* C6: the record for key k has the fields of all input records with key k,
\* each non-key field with the value of the last such record that has it, and
\* the key field k; over a list get_items yielded that is the value of the
\* last document of the last store that has the field
C6_LastWriteWins ==
    pb_pc = "processed" =>
        LET key == builder.target.key
        IN  \A k \in KeysOf(yielded, key) :
              \E j \in DOMAIN processed :
                LET d == processed[j]
                    grp == {i \in DOMAIN yielded : yielded[i][key] = k}
                IN  /\ key \in Fields(d)
                    /\ d[key] = k
                    /\ Fields(d) = {key} \cup UNION {Fields(yielded[i]) : i \in grp}
                    /\ \A f \in Fields(d) \ {key} :
                          d[f] = yielded[LastWith(yielded, key, k, f)][f]
                    /\ (gen.started /\ ProjectsAll(builder)) =>
                          \A f \in Fields(d) \ {key} :
                             LET ss == {s \in DOMAIN builder.sources :
                                           Contributing(builder, s, k, f) # {}}
                                 s == Max(ss)
                             IN  /\ ss # {}
                                 /\ d[f] = builder.sources[s].docs[
                                       Max(Contributing(builder, s, k, f))][f]

\* two stores gave the same field for one key, with different values
C6_Witness ==
    /\ pb_pc = "processed"
    /\ gen.started
    /\ ProjectsAll(builder)
    /\ \E j \in DOMAIN processed : \E f \in Fields(processed[j]) \ {"k"} :
          /\ Contributing(builder, 1, processed[j]["k"], f) # {}
          /\ Len(builder.sources) = 2
          /\ Contributing(builder, 2, processed[j]["k"], f) # {}
          /\ \E i \in Contributing(builder, 1, processed[j]["k"], f) :
                builder.sources[1].docs[i][f] # processed[j][f]

\* what projecting all fields of document d of a store gives
AllFieldsItem(d, store, target) ==
    SetField(DelFields(d, {"_id", store.last_updated_field}), target.key,
             d[store.key])

\* C8: with fields_to_project left None, get_items raises nothing and each
\* list it yields holds, store by store, every document with a key of the
\* chunk: unmodified but for _id and the last-updated field, which are gone,
\* and the target key field, which has the document's key value
C8_DefaultProjectsAll ==
    (args # NoArgs /\ args.fields_to_project.t = "none" /\ gen.started)
    => /\ pb_pc # "failed"
       /\ (pb_pc = "yielded") =>
            LET ks == Range(NotNone(utils_grouper(gen.keys, builder.chunk_size)
                                       [gen.c - 1]))
            IN  yielded = Flatten(
                   [s \in DOMAIN builder.sources |->
                      LET st == builder.sources[s]
                          hit == SelectSeq2(st.docs, st.key, ks)
                      IN  [j \in DOMAIN hit |->
                              AllFieldsItem(hit[j], st, builder.target)]])

\* C9: a source_stores that is no list raises TypeError; a fields_to_project
\* list of another length raises ValueError; a fields_to_project that is no
\* list and not None, or has an element that is no list and no dict, raises
\* TypeError; and no call on a store has been made when it is raised
C9_ConstructorRejects ==
    (args # NoArgs /\ pb_pc # "new")
    => LET ss == args.source_stores
           ftp == args.fields_to_project
           rejected(e) == pb_pc = "failed" /\ pb_error = e /\ io = <<>>
       IN  /\ (~ss.islist) => rejected("TypeError")
           /\ (ss.islist /\ ftp.t = "list" /\ Len(ftp.elems) # Len(ss.stores))
                 => rejected("ValueError")
           /\ (ss.islist /\ ftp.t \notin {"list", "none"}) => rejected("TypeError")
           /\ (/\ ss.islist /\ ftp.t = "list" /\ Len(ftp.elems) = Len(ss.stores)
               /\ \E e \in Range(ftp.elems) : e.t \notin {"list", "dict"})
                 => rejected("TypeError")

\* an element of a list of the right length was rejected
C9_Witness ==
    /\ args # NoArgs
    /\ pb_pc = "failed"
    /\ pb_error = "TypeError"
    /\ io = <<>>
    /\ args.source_stores.islist
    /\ args.fields_to_project.t = "list"
    /\ Len(args.fields_to_project.elems) = 2
    /\ Len(args.source_stores.stores) = 2
    /\ Len(args.source_stores.stores[1].docs) > 0

\* the non-null key values the source stores hold
SourceKeys(b) == DistinctKeys(b.sources) \ {Null}

\* C7: when multi has run on a Projection_Builder with no query_by_key, the
\* target holds one record per key value of the sources, each with the key
\* field and the last-updated field
C7_PipelineCommits ==
    (pc \in {"done", "raised"} /\ Len(args.query_by_key) = 0)
    => /\ Len(target_docs) = Cardinality(SourceKeys(builder))
       /\ KeysOf(target_docs, builder.target.key) = SourceKeys(builder)
       /\ \A j \in DOMAIN target_docs :
             builder.target.last_updated_field \in Fields(target_docs[j])

\* the key values of the chunk get_items worked on last
ChunkKeys == Range(NotNone(utils_grouper(gen.keys, builder.chunk_size)[gen.c - 1]))

\* the documents of source store s that have a key value of the chunk
Hits(s) == SelectSeq2(builder.sources[s].docs, builder.sources[s].key, ChunkKeys)

RECURSIVE HitsBefore(_)
\* how many items the stores before s gave to the yielded list
HitsBefore(s) == IF s = 1 THEN 0 ELSE HitsBefore(s - 1) + Len(Hits(s - 1))

\* the mapping {target_name: source_path} the caller gave for store s
GivenMapping(s) ==
    LET e == args.fields_to_project.elems[s]
    IN  IF e.t = "dict" THEN e.map ELSE [f \in Range(e.fields) |-> f]

\* C12: the list get_items yields holds one item per document of the chunk,
\* store by store; for a store given a non-empty mapping the item of a
\* document has every target name of the mapping with the value at its source
\* path, no field besides those names and the target key, and the document's
\* key value under the target key
C12_Renaming ==
    (args # NoArgs /\ pb_pc = "yielded")
    => /\ Len(yielded) = HitsBefore(Len(builder.sources) + 1)
       /\ \A s \in DOMAIN builder.sources :
             LET m == GivenMapping(s)
                 st == builder.sources[s]
                 key == builder.target.key
             IN  (DOMAIN m # {}) =>
                   \A j \in DOMAIN Hits(s) :
                      LET d == Hits(s)[j]
                          item == yielded[HitsBefore(s) + j]
                      IN  /\ \A t \in DOMAIN m :
                                t \in Fields(item) /\ item[t] = Get(d, m[t])
                          /\ Fields(item) \subseteq DOMAIN m \cup {key}
                          /\ key \in Fields(item)
                          /\ item[key] = d[st.key]

\* the target.update calls made so far
TargetUpdates == SelectSeq(io, LAMBDA e : e.op = "update")

\* update_targets has just returned to the caller of the builder
Returned == pb_pc = "built" /\ now > FirstTime

\* C16: every record passed in one target.update call has the target's
\* last-updated field, all with one value, the time read in that call; and
\* when update_targets returns, every record of its list holds the time of
\* that call, whatever it held before
C16_OneTimestamp ==
    LET lu == builder.target.last_updated_field
    IN  /\ \A c \in DOMAIN TargetUpdates :
              \E t \in FirstTime .. now - 1 :
                 \A j \in DOMAIN TargetUpdates[c].docs :
                    /\ lu \in Fields(TargetUpdates[c].docs[j])
                    /\ TargetUpdates[c].docs[j][lu] = t
        /\ Returned =>
              \A j \in DOMAIN processed :
                 lu \in Fields(processed[j]) /\ processed[j][lu] = now - 1

\* a call stamped two records, one of which came with a last-updated value
C16_Witness ==
    /\ Returned
    /\ Len(processed) = 2
    /\ \E j \in DOMAIN yielded : "last_updated" \in Fields(yielded[j])
    /\ \A j \in DOMAIN processed : processed[j]["last_updated"] = now - 1

\* a record without its last-updated field
Unstamped(d, lu) == DelFields(d, {lu})

\* C17: a call of update_targets with an empty list makes no call on the
\* target and raises nothing; a call with a non-empty list makes exactly one
\* target.update call, with every record of the list, in order
C17_OneSinkCall ==
    [][(pb_pc = "processed" /\ pb_pc' # "processed")
        => LET lu == builder.target.last_updated_field
           IN  /\ pb_error' = "none"
               /\ (processed = <<>>) => (io' = io /\ target_docs' = target_docs)
               /\ (processed # <<>>) =>
                     /\ Len(io') = Len(io) + 1
                     /\ SubSeq(io', 1, Len(io)) = io
                     /\ io'[Len(io')].op = "update"
                     /\ Len(io'[Len(io')].docs) = Len(processed)
                     /\ \A j \in DOMAIN processed :
                           Unstamped(io'[Len(io')].docs[j], lu)
                              = Unstamped(processed[j], lu)]_vars

\* update_targets returned from a call with an empty list
C17_Witness ==
    /\ Returned
    /\ processed = <<>>
    /\ pb_error = "none"
    /\ TargetUpdates = <<>>

\* every record of the list has the key field, with a value that is not None
KeyedNotNull(items, key) ==
    \A j \in DOMAIN items : key \in Fields(items[j]) /\ items[j][key] # Null

\* C18: no store query is sent a None key, and the items get_items yields, the
\* records process_item returns and the records handed to target.update all
\* have the target's key field with a value that is not None
C18_NonNullKeys ==
    LET key == builder.target.key
    IN  /\ \A c \in DOMAIN io : io[c].op = "query" => Null \notin Range(io[c].keys)
        /\ (gen.started /\ pb_pc \in {"yielded", "processed"})
              => KeyedNotNull(yielded, key)
        /\ (gen.started /\ (pb_pc = "processed" \/ Returned))
              => KeyedNotNull(processed, key)
        /\ \A c \in DOMAIN TargetUpdates : KeyedNotNull(TargetUpdates[c].docs, key)

\* records were made from a chunk of keys that held None, over a store that
\* has a document whose key is None
C18_Witness ==
    /\ gen.started
    /\ pb_pc = "processed"
    /\ processed # <<>>
    /\ \E p \in DOMAIN gen.keys :
          gen.keys[p] = Null /\ CeilDiv(p, builder.chunk_size) = gen.c - 1
    /\ \E s \in DOMAIN builder.sources : \E d \in Range(builder.sources[s].docs) :
          d[builder.sources[s].key] = Null

\* C19: a builder made with a fields_to_project list raises nothing from
\* get_items, and each list it yields has one item per document of the chunk
\* over all source stores, none when no store has a document for the chunk
C19_EmptyIsNoError ==
    (args # NoArgs /\ args.fields_to_project.t = "list" /\ gen.started)
    => /\ pb_pc # "failed"
       /\ pb_error = "none"
       /\ (pb_pc = "yielded") => Len(yielded) = HitsBefore(Len(builder.sources) + 1)

----------------------------------------------------------------------------
(* Properties of grouper *)

\* the input positions a purely positional c-th group of n holds
PositionalGroup(c, n, L) ==
    [j \in 1 .. (IF c * n <= L THEN n ELSE L - (c - 1) * n) |-> (c - 1) * n + j]

\* C11: when grouper has finished over an input of length L it has yielded
\* ceil(L/n) groups, the c-th holding exactly input positions (c-1)n+1 .. cn
\* (the last one those that remain), whatever the elements are, so that the
\* groups concatenated are the input in order
C11_GrouperPositional ==
    pc = "done"
    => LET n == builder.chunk_size
           L == Len(source)
       IN  /\ Len(groups) = CeilDiv(L, n)
           /\ \A c \in DOMAIN groups : groups[c] = PositionalGroup(c, n, L)
           /\ Flatten(groups) = [i \in 1 .. L |-> i]

====
